---- MODULE Spec2Model ----
(***************************************************************************)
(* Task dispatch (os/src/task/processor.rs) and the process syscalls       *)
(* (os/src/syscall/process.rs) of the rCore teaching kernel.               *)
(*                                                                         *)
(* Addresses and lengths are counted in machine words of 8 bytes, so a     *)
(* TimeVal is 2 words.  The model looks at a window of NumPages user pages *)
(* that the loader left unmapped; the pages outside the window are never   *)
(* mapped.                                                                 *)
(***************************************************************************)
EXTENDS Integers, Sequences, FiniteSets, TLC

\* ------------------------------------------------------------------ bounds
\* pages of the user window
NumPages == 2
\* words per page (4096 bytes in the kernel, scaled down; a TaskInfo fits in)
PAGE_SIZE == 4
\* MapAreas one address space may hold in the window
MaxAreas == 2
\* clock ticks the timer may advance
MaxTick == 2
\* microseconds per clock tick
TickUs == 1500000
\* scheduling events recorded in evlog
MaxEvents == 8
\* invocations counted per task and syscall id
MaxCount == 2

\* ------------------------------------------------------- program constants
\* words of a TimeVal {sec, usec}: the 16 bytes asked of translated_byte_buffer
TimeValLen == 2
\* microseconds in a second
MICRO_PER_SEC == 1000000
\* milliseconds are microseconds / 1000 (timer, get_time_ms)
MICRO_PER_MSEC == 1000

Tasks == {"A", "B", "C"}
InitialQueue == <<"A", "B", "C">>
NoTask == "none"
Idle == "idle"

\* the syscall arguments tried
Ports == {0, 1, 3, 9}
VPNs == 0 .. (NumPages - 1)
UAddrs == 0 .. (NumPages * PAGE_SIZE - 1)
\* ports that pass validation: R, and R+W
ValidPorts == {1, 3}
\* start addresses: every page boundary of the window, and an unaligned address
AlignedStarts == {vpn * PAGE_SIZE : vpn \in VPNs}
Starts == AlignedStarts \cup {1}
\* lengths: none, part of a page, and whole pages
Lens == {0, 1} \cup {n * PAGE_SIZE : n \in 1 .. NumPages}
\* destinations of a TimeVal: inside the first page, across the boundary
\* to the second page, and across the end of the window
TimePtrs == {0, PAGE_SIZE - 1, NumPages * PAGE_SIZE - 1}
\* lengths tried with invalid arguments: part of a page, a page, two pages
ArgLens == {1, PAGE_SIZE, 2 * PAGE_SIZE}
\* destinations of a TaskInfo: at the start of the first page, across the
\* boundary to the second page, at the start of the second page
InfoPtrs == {0, PAGE_SIZE - 1, PAGE_SIZE}

VARIABLES
    ready_queue,   \* TASK_MANAGER.ready_queue: the FIFO of task handles
    current,       \* PROCESSOR.current: Option<Arc<TaskControlBlock>>
    flow,          \* the control flow on the core: Idle or the task __switch resumed
    task_status,   \* task_inner.task_status of every task
    task_stime,    \* task_inner.task_stime of every task (ms, 0 = not stamped)
    now,           \* the timer, in ticks
    memory_set,    \* task_inner.memory_set of every task: areas + page table
    umem,          \* the words of every task's user pages in the window
    panicked,      \* the kernel has panicked
    last,          \* the last operation, its arguments and its return value
    pre_mmap,      \* the address space before the last call, when that was a successful mmap
    scen,          \* progress of the mmap/mmap/munmap/munmap scenario
    evlog,         \* the first MaxEvents scheduling events
    task_syscall_times,  \* task_inner.task_syscall_times of every task
    task_cx,       \* task_inner.task_cx of every task: where __switch resumes it
    guards,        \* the exclusive-access guards held, and those held at the last __switch
    last_sys       \* the syscall trap of the last step, if it was one

vars == <<ready_queue, current, flow, task_status, task_stime, now, memory_set,
          umem, panicked, last, pre_mmap, scen, evlog,
          task_syscall_times, task_cx, guards, last_sys>>

schedVars == <<ready_queue, flow, task_status, task_stime, evlog>>
memVars == <<memory_set, umem, pre_mmap, scen>>

\* ------------------------------------------------------------ address types
\* VirtAddr::page_offset
page_offset(va) ==
    va % PAGE_SIZE

\* VirtAddr::floor
floor(va) ==
    va \div PAGE_SIZE

\* VirtAddr::ceil
ceil(va) ==
    (va + PAGE_SIZE - 1) \div PAGE_SIZE

\* iteration over VPNRange { l, r }: the pages l, l+1, .. r-1
VPNRange(l, r) ==
    {vpn \in 0 .. NumPages : l <= vpn /\ vpn < r}

\* MapPermission::from_bits: the flags of a bit pattern (R = 1<<1, W = 1<<2,
\* X = 1<<3, U = 1<<4)
from_bits(bits) ==
    {f \in {"R", "W", "X", "U"} :
        \/ f = "R" /\ (bits \div 2) % 2 = 1
        \/ f = "W" /\ (bits \div 4) % 2 = 1
        \/ f = "X" /\ (bits \div 8) % 2 = 1
        \/ f = "U" /\ (bits \div 16) % 2 = 1}

\* ------------------------------------------------------------ address space
EmptyMemorySet ==
    [areas |-> <<>>, page_table |-> [v \in {} |-> {}]]

\* PageTableEntry::is_valid
is_valid(pte) ==
    pte.valid

\* MemorySet::translate: Option<PageTableEntry>, as a set of at most one entry
translate(ms, vpn) ==
    IF vpn \in DOMAIN ms.page_table THEN {ms.page_table[vpn]} ELSE {}

\* the pages with a valid entry
MappedPages(ms) ==
    {vpn \in VPNs : \E pte \in translate(ms, vpn) : is_valid(pte)}

\* MemorySet::insert_framed_area: all-or-nothing, one frame per page, the new
\* MapArea is recorded at the end of the list
insert_framed_area(ms, start_va, end_va, permission) ==
    LET start_vpn == floor(start_va)
        end_vpn == ceil(end_va)
        pages == VPNRange(start_vpn, end_vpn)
    IN  IF \E vpn \in pages : translate(ms, vpn) # {}
        THEN [ok |-> FALSE, ms |-> ms]
        ELSE [ok |-> TRUE,
              ms |-> [areas |-> Append(ms.areas,
                                       [l |-> start_vpn, r |-> end_vpn,
                                        map_type |-> "Framed", perm |-> permission]),
                      page_table |-> [v \in (DOMAIN ms.page_table) \cup pages |->
                                        IF v \in pages
                                        THEN [valid |-> TRUE, perm |-> permission]
                                        ELSE ms.page_table[v]]]]

\* remove_area_with_start_vpn that forgets the area and keeps its pages mapped
remove_area_with_start_vpn_keep(ms, start_vpn) ==
    LET hits == {i \in 1 .. Len(ms.areas) : ms.areas[i].l = start_vpn}
    IN  IF hits = {}
        THEN [ok |-> FALSE, ms |-> ms]
        ELSE LET idx == CHOOSE i \in hits : \A j \in hits : i <= j
             IN  [ok |-> TRUE,
                  ms |-> [areas |-> SubSeq(ms.areas, 1, idx - 1)
                                        \o SubSeq(ms.areas, idx + 1, Len(ms.areas)),
                          page_table |-> ms.page_table]]

\* MemorySet::remove_area_with_start_vpn: the first area of the list that
\* begins at start_vpn is unmapped and removed; fails when there is none
remove_area_with_start_vpn(ms, start_vpn) ==
    LET hits == {i \in 1 .. Len(ms.areas) : ms.areas[i].l = start_vpn}
    IN  IF hits = {}
        THEN [ok |-> FALSE, ms |-> ms]
        ELSE LET idx == CHOOSE i \in hits : \A j \in hits : i <= j
                 area == ms.areas[idx]
                 pages == VPNRange(area.l, area.r)
             IN  [ok |-> TRUE,
                  ms |-> [areas |-> SubSeq(ms.areas, 1, idx - 1)
                                        \o SubSeq(ms.areas, idx + 1, Len(ms.areas)),
                          page_table |-> [v \in (DOMAIN ms.page_table) \ pages |->
                                            ms.page_table[v]]]]

\* ------------------------------------------------- processor.rs: mmap/munmap
\* current_task_mmap without the page_offset test
current_task_mmap_unaligned(ms, _start, _len, _port) ==
    LET start_va == _start
        end_va == _start + _len
    IN  IF _port \div 8 # 0 \/ _port % 8 = 0
        THEN [ret |-> -1, ms |-> ms]
        ELSE LET start_vpn == floor(start_va)
                 end_vpn == ceil(end_va)
             IN  IF \E vpn \in VPNRange(start_vpn, end_vpn) :
                        \E vpn_map \in translate(ms, vpn) : is_valid(vpn_map)
                 THEN [ret |-> -1, ms |-> ms]
                 ELSE [ret |-> 0,
                       ms |-> insert_framed_area(ms, start_va, end_va,
                                  {"U"} \cup from_bits((_port * 2) % 256)).ms]

\* current_task_mmap without the test for bits above bit 2
current_task_mmap_highbits(ms, _start, _len, _port) ==
    LET start_va == _start
        end_va == _start + _len
    IN  IF page_offset(start_va) # 0 \/ _port % 8 = 0
        THEN [ret |-> -1, ms |-> ms]
        ELSE LET start_vpn == floor(start_va)
                 end_vpn == ceil(end_va)
             IN  IF \E vpn \in VPNRange(start_vpn, end_vpn) :
                        \E vpn_map \in translate(ms, vpn) : is_valid(vpn_map)
                 THEN [ret |-> -1, ms |-> ms]
                 ELSE [ret |-> 0,
                       ms |-> insert_framed_area(ms, start_va, end_va,
                                  {"U"} \cup from_bits((_port * 2) % 256)).ms]

\* current_task_mmap without the loop that looks for a mapped page
current_task_mmap_nooverlap(ms, _start, _len, _port) ==
    LET start_va == _start
        end_va == _start + _len
    IN  IF page_offset(start_va) # 0 \/ _port \div 8 # 0 \/ _port % 8 = 0
        THEN [ret |-> -1, ms |-> ms]
        ELSE [ret |-> 0,
              ms |-> insert_framed_area(ms, start_va, end_va,
                         {"U"} \cup from_bits((_port * 2) % 256)).ms]

\* current_task_mmap: the result and the memory set of the current task
\* (_port & !0x7 is _port \div 8, _port & 0x7 is _port % 8, (_port << 1) as u8
\* is (_port * 2) % 256)
current_task_mmap(ms, _start, _len, _port) ==
    LET start_va == _start
        end_va == _start + _len
    IN  IF page_offset(start_va) # 0 \/ _port \div 8 # 0 \/ _port % 8 = 0
        THEN [ret |-> -1, ms |-> ms]
        ELSE LET start_vpn == floor(start_va)
                 end_vpn == ceil(end_va)
             IN  IF \E vpn \in VPNRange(start_vpn, end_vpn) :
                        \E vpn_map \in translate(ms, vpn) : is_valid(vpn_map)
                 THEN [ret |-> -1, ms |-> ms]
                 ELSE [ret |-> 0,
                       ms |-> insert_framed_area(ms, start_va, end_va,
                                  {"U"} \cup from_bits((_port * 2) % 256)).ms]

\* current_task_munmap without the loop that looks for an unmapped page
current_task_munmap_nocheck(ms, _start, _len) ==
    LET start_va == _start
    IN  IF page_offset(start_va) # 0
        THEN [ret |-> -1, ms |-> ms]
        ELSE [ret |-> 0, ms |-> remove_area_with_start_vpn(ms, floor(start_va)).ms]

\* current_task_munmap: the result of remove_area_with_start_vpn is dropped
\* and 0 returned
current_task_munmap(ms, _start, _len) ==
    LET start_va == _start
        end_va == _start + _len
    IN  IF page_offset(start_va) # 0
        THEN [ret |-> -1, ms |-> ms]
        ELSE LET start_vpn == floor(start_va)
                 end_vpn == ceil(end_va)
             IN  IF \E vpn \in VPNRange(start_vpn, end_vpn) :
                        \/ translate(ms, vpn) = {}
                        \/ \E vpn_map \in translate(ms, vpn) : ~is_valid(vpn_map)
                 THEN [ret |-> -1, ms |-> ms]
                 ELSE [ret |-> 0, ms |-> remove_area_with_start_vpn(ms, start_vpn).ms]

\* --------------------------------------------------- process.rs: mmap/munmap
\* task::current_task_map_area(start_va, end_va, permission): -1 when a page
\* of the range is mapped, else insert_framed_area and 0
current_task_map_area(ms, start_va, end_va, permission) ==
    IF \E vpn \in VPNRange(floor(start_va), ceil(end_va)) : vpn \in MappedPages(ms)
    THEN [ret |-> -1, ms |-> ms]
    ELSE [ret |-> 0, ms |-> insert_framed_area(ms, start_va, end_va, permission).ms]

\* task::current_task_unmap_area(start_va, end_va): -1 for an unaligned start
\* or an unmapped page, else remove_area_with_start_vpn: 0 on match, -1 if no
\* area starts there
current_task_unmap_area(ms, start_va, end_va) ==
    IF page_offset(start_va) # 0
    THEN [ret |-> -1, ms |-> ms]
    ELSE IF \E vpn \in VPNRange(floor(start_va), ceil(end_va)) : vpn \notin MappedPages(ms)
         THEN [ret |-> -1, ms |-> ms]
         ELSE LET removed == remove_area_with_start_vpn(ms, floor(start_va))
              IN  [ret |-> IF removed.ok THEN 0 ELSE -1, ms |-> removed.ms]

\* sys_mmap
sys_mmap(ms, _start, _len, _port) ==
    LET start_va == _start
        end_va == _start + _len
    IN  IF _port \div 8 # 0 \/ _port % 8 = 0 \/ page_offset(start_va) # 0
        THEN [ret |-> -1, ms |-> ms]
        ELSE LET map_permission ==
                     {"U"} \cup (IF _port % 2 # 0 THEN {"R"} ELSE {})
                           \cup (IF (_port \div 2) % 2 # 0 THEN {"W"} ELSE {})
                           \cup (IF (_port \div 4) % 2 # 0 THEN {"X"} ELSE {})
             IN  current_task_map_area(ms, start_va, end_va, map_permission)

\* sys_munmap
sys_munmap(ms, _start, _len) ==
    LET start_va == _start
        end_va == _start + _len
    IN  current_task_unmap_area(ms, start_va, end_va)

\* ------------------------------------------------------------------- timer
\* timer::get_time_us
get_time_us ==
    now * TickUs

\* timer::get_time_ms
get_time_ms ==
    get_time_us \div MICRO_PER_MSEC

\* --------------------------------------------------- process.rs: get_time
\* mm::translated_byte_buffer(token, ptr, len): one slice of addresses per page
\* touched, in order; the sequence ends before the first page that has no
\* valid user-accessible entry
RECURSIVE translated_byte_buffer(_, _, _)
translated_byte_buffer(ms, ptr, len) ==
    IF len = 0
    THEN <<>>
    ELSE LET vpn == floor(ptr)
             stop == IF (vpn + 1) * PAGE_SIZE < ptr + len
                     THEN (vpn + 1) * PAGE_SIZE ELSE ptr + len
         IN  IF \E pte \in translate(ms, vpn) : is_valid(pte) /\ "U" \in pte.perm
             THEN <<[i \in 1 .. (stop - ptr) |-> ptr + i - 1]>>
                  \o translated_byte_buffer(ms, stop, ptr + len - stop)
             ELSE <<>>

\* sys_get_time: the fields are copied only when the buffer is one slice;
\* copy_from_slice panics when that slice stops short of the second field;
\* the return value is 0 on every path
sys_get_time(ms, um, _ts, us) ==
    LET sec == us \div MICRO_PER_SEC
        usec == us % MICRO_PER_SEC
        ts_buf == translated_byte_buffer(ms, _ts, TimeValLen)
    IN  IF Len(ts_buf) = 1
        THEN LET slice == ts_buf[1]
                 um1 == [um EXCEPT ![slice[1]] = sec]
             IN  IF Len(slice) - 1 # 1
                 THEN [um |-> um1, ret |-> 0, panic |-> TRUE]
                 ELSE [um |-> [um1 EXCEPT ![slice[2]] = usec], ret |-> 0, panic |-> FALSE]
        ELSE [um |-> um, ret |-> 0, panic |-> FALSE]

\* ------------------------------------------------------------ task manager
\* TaskManager::fetch: the head of the ready queue, if any
fetch_task(queue) ==
    IF queue = <<>>
    THEN [task |-> NoTask, queue |-> queue]
    ELSE [task |-> Head(queue), queue |-> Tail(queue)]

\* TaskManager::add: at the tail of the ready queue
add_task(queue, task) ==
    Append(queue, task)

\* take_current that clones the handle and leaves it in the Processor
take_current_clone(cur) ==
    [task |-> cur, current |-> cur]

\* Processor::take_current
take_current(cur) ==
    [task |-> cur, current |-> NoTask]

\* take_current_task
take_current_task(cur) ==
    take_current(cur)

\* ------------------------------------------------------------ bookkeeping
\* the log keeps the first MaxEvents events
Log(log, e) ==
    IF Len(log) < MaxEvents THEN Append(log, e) ELSE log

NoCall ==
    [op |-> "boot", task |-> NoTask, start |-> 0, len |-> 0, port |-> 0,
     us |-> 0, ret |-> 0, returned |-> FALSE]

NoScen ==
    [step |-> 0, base |-> 0, rets |-> <<>>]

\* the scenario mmap(s, 2 pages, R+W), mmap(s, 1 page, R), munmap(s, 2 pages),
\* munmap(s, 2 pages) begun with the two pages at s unmapped: how far the
\* calls made so far have followed it, and what they returned
ScenStep(sc, ms, kind, start, len, port, ret) ==
    IF \/ sc.step = 1 /\ kind = "mmap" /\ start = sc.base /\ len = PAGE_SIZE /\ port = 1
       \/ sc.step \in {2, 3} /\ kind = "munmap" /\ start = sc.base /\ len = 2 * PAGE_SIZE
    THEN [step |-> sc.step + 1, base |-> sc.base, rets |-> Append(sc.rets, ret)]
    ELSE IF /\ kind = "mmap" /\ len = 2 * PAGE_SIZE /\ port = 3
            /\ page_offset(start) = 0
            /\ floor(start) \notin MappedPages(ms)
            /\ (floor(start) + 1) \notin MappedPages(ms)
         THEN [step |-> 1, base |-> start, rets |-> <<ret>>]
         ELSE NoScen

\* the words of the user pages after an address-space change: a page that
\* stays mapped keeps its words, a frame that is released or new reads as 0
Frames(new_ms, old_ms, um) ==
    [a \in UAddrs |->
        IF floor(a) \in MappedPages(new_ms) \cap MappedPages(old_ms) THEN um[a] ELSE 0]

\* a call of the executing task that changes (or leaves) its address space
MemCall(kind, res, start, len, port) ==
    /\ Len(res.ms.areas) <= MaxAreas
    /\ memory_set' = [memory_set EXCEPT ![current] = res.ms]
    /\ umem' = [umem EXCEPT ![current] = Frames(res.ms, memory_set[current], umem[current])]
    /\ last' = [op |-> kind, task |-> current, start |-> start, len |-> len,
                port |-> port, us |-> 0, ret |-> res.ret, returned |-> TRUE]
    /\ pre_mmap' = IF kind = "mmap" /\ res.ret = 0
                   THEN {[ms |-> memory_set[current], start |-> start, len |-> len]}
                   ELSE {}
    /\ scen' = ScenStep(scen, memory_set[current], kind, start, len, port, res.ret)
    /\ UNCHANGED <<ready_queue, current, flow, task_status, task_stime, now,
                   panicked, evlog>>

\* processor.current.as_ref().unwrap() / current_task().unwrap() on None
KernelPanic(op) ==
    /\ panicked' = TRUE
    /\ last' = [NoCall EXCEPT !.op = op, !.task = flow]
    /\ UNCHANGED <<ready_queue, current, flow, task_status, task_stime, now,
                   memory_set, umem, pre_mmap, scen, evlog>>

\* a task executes in the kernel
InTask ==
    ~panicked /\ flow \in Tasks

\* ----------------------------------------------------------------- actions
CurrentTaskMmap(start, len, port) ==
    /\ InTask
    /\ IF current = NoTask
       THEN KernelPanic("mmap")
       ELSE MemCall("mmap",
                    current_task_mmap(memory_set[current], start, len, port),
                    start, len, port)

CurrentTaskMunmap(start, len) ==
    /\ InTask
    /\ IF current = NoTask
       THEN KernelPanic("munmap")
       ELSE MemCall("munmap",
                    current_task_munmap(memory_set[current], start, len),
                    start, len, 0)

SysMmap(start, len, port) ==
    /\ InTask
    /\ IF current = NoTask
       THEN KernelPanic("mmap")
       ELSE MemCall("mmap",
                    sys_mmap(memory_set[current], start, len, port),
                    start, len, port)

SysMunmap(start, len) ==
    /\ InTask
    /\ IF current = NoTask
       THEN KernelPanic("munmap")
       ELSE MemCall("munmap",
                    sys_munmap(memory_set[current], start, len),
                    start, len, 0)

SysGetTime(_ts) ==
    /\ InTask
    /\ IF current = NoTask
       THEN KernelPanic("get_time")
       ELSE LET res == sys_get_time(memory_set[current], umem[current], _ts, get_time_us)
            IN  /\ umem' = [umem EXCEPT ![current] = res.um]
                /\ panicked' = res.panic
                /\ last' = [op |-> "get_time", task |-> current, start |-> _ts,
                            len |-> TimeValLen, port |-> 0, us |-> get_time_us,
                            ret |-> res.ret, returned |-> ~res.panic]
                /\ pre_mmap' = {}
                /\ scen' = NoScen
                /\ UNCHANGED <<ready_queue, current, flow, task_status, task_stime,
                               now, memory_set, evlog>>

\* the timer advances
Tick ==
    /\ ~panicked
    /\ now < MaxTick
    /\ now' = now + 1
    /\ last' = [NoCall EXCEPT !.op = "tick"]
    /\ UNCHANGED <<ready_queue, current, flow, task_status, task_stime, memory_set,
                   umem, panicked, pre_mmap, scen, evlog>>

\* run_tasks that fetches once to test the queue and again to take the task
run_tasks_fetch_twice ==
    /\ ~panicked
    /\ flow = Idle
    /\ LET probe == fetch_task(ready_queue)
           fetched == fetch_task(probe.queue)
       IN  IF probe.task # NoTask /\ fetched.task # NoTask
           THEN LET task == fetched.task
                IN  /\ ready_queue' = fetched.queue
                    /\ task_status' = [task_status EXCEPT ![task] = "Running"]
                    /\ task_stime' = [task_stime EXCEPT ![task] =
                                        IF @ = 0 THEN get_time_ms ELSE @]
                    /\ current' = task
                    /\ flow' = task
                    /\ evlog' = Log(evlog, <<"run", task>>)
                    /\ last' = [NoCall EXCEPT !.op = "run_tasks", !.task = task]
                    /\ UNCHANGED <<now, memory_set, umem, panicked, pre_mmap, scen>>
           ELSE /\ last' = [NoCall EXCEPT !.op = "run_tasks"]
                /\ UNCHANGED <<ready_queue, current, flow, task_status, task_stime, now,
                               memory_set, umem, panicked, pre_mmap, scen, evlog>>

\* run_tasks: one turn of the idle loop.  With a task fetched: status Running,
\* the start time stamped while it reads 0, the task made current, and
\* __switch to the task's context; with none: the warning, and the next turn
run_tasks ==
    /\ ~panicked
    /\ flow = Idle
    /\ LET fetched == fetch_task(ready_queue)
       IN  IF fetched.task # NoTask
           THEN LET task == fetched.task
                IN  /\ ready_queue' = fetched.queue
                    /\ task_status' = [task_status EXCEPT ![task] = "Running"]
                    /\ task_stime' = [task_stime EXCEPT ![task] =
                                        IF @ = 0 THEN get_time_ms ELSE @]
                    /\ current' = task
                    /\ flow' = task
                    /\ evlog' = Log(evlog, <<"run", task>>)
                    /\ last' = [NoCall EXCEPT !.op = "run_tasks", !.task = task]
                    /\ UNCHANGED <<now, memory_set, umem, panicked, pre_mmap, scen>>
           ELSE /\ last' = [NoCall EXCEPT !.op = "run_tasks"]
                /\ UNCHANGED <<ready_queue, current, flow, task_status, task_stime, now,
                               memory_set, umem, panicked, pre_mmap, scen, evlog>>

\* schedule that comes back to its caller without a switch
schedule_noswitch ==
    flow' = flow

\* schedule: __switch from the task's context to the idle context
schedule ==
    flow' = Idle

\* suspend_current_and_run_next: the current task is taken, set Ready, added
\* at the tail of the ready queue, and control goes to the idle loop
suspend_current_and_run_next ==
    LET taken == take_current_task(current)
    IN  IF taken.task = NoTask
        THEN KernelPanic("suspend_current_and_run_next")
        ELSE /\ current' = taken.current
             /\ task_status' = [task_status EXCEPT ![taken.task] = "Ready"]
             /\ ready_queue' = add_task(ready_queue, taken.task)
             /\ schedule
             /\ evlog' = Log(evlog, <<"yield", flow>>)
             /\ last' = [NoCall EXCEPT !.op = "sys_yield", !.task = flow]
             /\ UNCHANGED <<task_stime, now, memory_set, umem, panicked, pre_mmap, scen>>

\* exit_current_and_run_next: the current task is taken, set Exited, its
\* address space and frames released, and control goes to the idle loop
exit_current_and_run_next ==
    LET taken == take_current_task(current)
    IN  IF taken.task = NoTask
        THEN KernelPanic("exit_current_and_run_next")
        ELSE /\ current' = taken.current
             /\ task_status' = [task_status EXCEPT ![taken.task] = "Exited"]
             /\ memory_set' = [memory_set EXCEPT ![taken.task] = EmptyMemorySet]
             /\ umem' = [umem EXCEPT ![taken.task] = [a \in UAddrs |-> 0]]
             /\ schedule
             /\ evlog' = Log(evlog, <<"exit", flow>>)
             /\ last' = [NoCall EXCEPT !.op = "sys_exit", !.task = flow]
             /\ pre_mmap' = {}
             /\ scen' = NoScen
             /\ UNCHANGED <<ready_queue, task_stime, now, panicked>>

\* sys_yield: up to the switch away
SysYield ==
    /\ InTask
    /\ suspend_current_and_run_next

\* sys_exit
SysExit ==
    /\ InTask
    /\ exit_current_and_run_next

\* ------------------------------------------------------ syscall accounting
SYSCALL_EXIT == 93
SYSCALL_YIELD == 124
SYSCALL_TASK_INFO == 410

\* the syscall ids the tasks of the model use
SyscallIds == {SYSCALL_EXIT, SYSCALL_YIELD, SYSCALL_TASK_INFO}

\* the counters wrap at CounterWrap (u32 in the kernel, scaled down to the
\* integers of the model)
CounterWrap == 65536

\* words of a TaskInfo (2016 bytes in the kernel, scaled down)
TaskInfoLen == 4

\* current_task_count_syscall that bumps the counter of every id
current_task_count_syscall_every(syscall_times, syscall_id) ==
    [id \in DOMAIN syscall_times |-> (syscall_times[id] + 1) % CounterWrap]

\* current_task_count_syscall: task_syscall_times[syscall_id] += 1
current_task_count_syscall(syscall_times, syscall_id) ==
    [syscall_times EXCEPT ![syscall_id] = (@ + 1) % CounterWrap]

\* current_task_info: the status, the counters and the running time
current_task_info(status, syscall_times, stime, current_time) ==
    [status |-> status, syscall_times |-> syscall_times,
     time |-> current_time - stime]

\* the discriminant of a TaskStatus
StatusCode(status) ==
    CASE status = "UnInit" -> 0
      [] status = "Ready" -> 1
      [] status = "Running" -> 2
      [] status = "Exited" -> 3

\* a TaskInfo as the words ptr::copy moves: the status, the u32 counters two
\* to a word, the time
TaskInfoWords(info) ==
    << StatusCode(info.status),
       info.syscall_times[SYSCALL_EXIT] + CounterWrap * info.syscall_times[SYSCALL_YIELD],
       info.syscall_times[SYSCALL_TASK_INFO],
       info.time >>

\* sys_task_info: the snapshot is copied only when the buffer is one slice,
\* ti_len bytes from the start of that slice whatever its length; the return
\* value is 0 on every path
sys_task_info(ms, um, _ti, syscall_times, stime, current_time) ==
    LET task_info == [status |-> "Running", syscall_times |-> syscall_times,
                      time |-> current_time - stime]
        words == TaskInfoWords(task_info)
        ti_buf == translated_byte_buffer(ms, _ti, TaskInfoLen)
    IN  IF Len(ti_buf) = 1
        THEN LET slice == ti_buf[1]
             IN  [um |-> [a \in UAddrs |->
                            IF a >= slice[1] /\ a < slice[1] + Len(slice)
                            THEN words[a - slice[1] + 1] ELSE um[a]],
                  ret |-> 0, overrun |-> Len(slice) < TaskInfoLen, info |-> task_info]
        ELSE [um |-> um, ret |-> 0, overrun |-> FALSE, info |-> task_info]

\* -------------------------------------------------- exclusive-access guards
\* the cell of the Processor; the inner cell of a task goes by the task's name
PROCESSOR == "PROCESSOR"

NoGuards ==
    [held |-> {}, at_switch |-> {}, fault |-> FALSE]

\* UPSafeCell::exclusive_access: borrow_mut panics on a cell already borrowed
exclusive_access(g, cell) ==
    IF g.fault THEN g
    ELSE IF cell \in g.held THEN [g EXCEPT !.fault = TRUE]
    ELSE [g EXCEPT !.held = @ \cup {cell}]

\* the guard of a cell goes out of scope or is dropped
drop(g, cell) ==
    IF g.fault THEN g ELSE [g EXCEPT !.held = @ \ {cell}]

\* __switch: the guards held by the flow that switches away
__switch(g) ==
    IF g.fault THEN g ELSE [g EXCEPT !.at_switch = g.held]

\* run_tasks whose processor guard lives to the end of the loop body
run_tasks_guards_nodrop(g, task) ==
    IF task = NoTask
    THEN drop(exclusive_access(g, PROCESSOR), PROCESSOR)
    ELSE LET g1 == exclusive_access(g, PROCESSOR)
             g2 == exclusive_access(g1, task)
             g3 == drop(g2, task)
         IN  __switch(g3)

\* run_tasks: the guards of one turn of the idle loop
run_tasks_guards(g, task) ==
    IF task = NoTask
    THEN drop(exclusive_access(g, PROCESSOR), PROCESSOR)
    ELSE LET g1 == exclusive_access(g, PROCESSOR)
             g2 == exclusive_access(g1, task)
             g3 == drop(g2, task)
             g4 == drop(g3, PROCESSOR)
         IN  __switch(g4)

\* schedule: the guards
schedule_guards(g) ==
    __switch(drop(exclusive_access(g, PROCESSOR), PROCESSOR))

\* take_current_task, current_task: a guard for the one statement
take_current_task_guards(g) ==
    drop(exclusive_access(g, PROCESSOR), PROCESSOR)

current_task_guards(g) ==
    drop(exclusive_access(g, PROCESSOR), PROCESSOR)

\* current_task_count_syscall: the guards
current_task_count_syscall_guards(g, task) ==
    LET g1 == exclusive_access(g, PROCESSOR)
    IN  IF task = NoTask
        THEN g1
        ELSE drop(drop(exclusive_access(g1, task), task), PROCESSOR)

\* current_task_info that asks for the current task under the processor guard
current_task_info_guards_nested(g, task) ==
    LET g1 == current_task_guards(exclusive_access(g, PROCESSOR))
    IN  IF task = NoTask
        THEN g1
        ELSE drop(drop(exclusive_access(g1, task), task), PROCESSOR)

\* current_task_info: the guards
current_task_info_guards(g, task) ==
    LET g1 == current_task_guards(g)
    IN  IF task = NoTask
        THEN g1
        ELSE drop(exclusive_access(g1, task), task)

\* current_task_mmap: the guards; the argument check returns before any
current_task_mmap_guards(g, task, _start, _port) ==
    IF page_offset(_start) # 0 \/ _port \div 8 # 0 \/ _port % 8 = 0
    THEN g
    ELSE LET g1 == exclusive_access(g, PROCESSOR)
         IN  IF task = NoTask
             THEN g1
             ELSE drop(drop(exclusive_access(g1, task), task), PROCESSOR)

\* current_task_munmap: the guards; the argument check returns before any
current_task_munmap_guards(g, task, _start) ==
    IF page_offset(_start) # 0
    THEN g
    ELSE LET g1 == exclusive_access(g, PROCESSOR)
         IN  IF task = NoTask
             THEN g1
             ELSE drop(drop(exclusive_access(g1, task), task), PROCESSOR)

\* suspend_current_and_run_next, exit_current_and_run_next: the guards
suspend_guards(g, task) ==
    LET g1 == take_current_task_guards(g)
    IN  IF task = NoTask
        THEN g1
        ELSE schedule_guards(drop(exclusive_access(g1, task), task))

\* ---------------------------------------------------------- kernel entries
\* a task executes on its own behalf: not inside a call it was switched out of
InUser ==
    InTask /\ ~guards.fault /\ task_cx[flow] = "user"

\* a step that is no syscall trap
Uncounted ==
    /\ UNCHANGED task_syscall_times
    /\ last_sys' = {}

\* the syscall dispatcher: the call is counted before its handler runs
Counted(syscall_id, info) ==
    /\ task_syscall_times[flow][syscall_id] < MaxCount
    /\ task_syscall_times' =
          IF current = NoTask
          THEN task_syscall_times
          ELSE [task_syscall_times EXCEPT
                   ![current] = current_task_count_syscall(@, syscall_id)]
    /\ last_sys' = {[task |-> flow, id |-> syscall_id, info |-> info]}

\* a step that takes no guard and leaves every task where it stands
Plain(A) ==
    /\ A
    /\ UNCHANGED <<task_cx, guards>>
    /\ Uncounted

\* one turn of the idle loop
Dispatch ==
    /\ ~guards.fault
    /\ run_tasks
    /\ guards' = run_tasks_guards(guards, fetch_task(ready_queue).task)
    /\ UNCHANGED task_cx
    /\ Uncounted

\* the handler of yield with the guards g of the flow
YieldBody(g) ==
    /\ InUser
    /\ SysYield
    /\ task_cx' = [task_cx EXCEPT ![flow] = "sys_yield"]
    /\ guards' = suspend_guards(g, current)

\* the handler of exit with the guards g of the flow
ExitBody(g) ==
    /\ InUser
    /\ SysExit
    /\ task_cx' = [task_cx EXCEPT ![flow] = "sys_exit"]
    /\ guards' = suspend_guards(g, current)

Yield ==
    YieldBody(guards) /\ Uncounted

Exit ==
    ExitBody(guards) /\ Uncounted

SyscallYield ==
    /\ YieldBody(current_task_count_syscall_guards(guards, current))
    /\ Counted(SYSCALL_YIELD, {})

SyscallExit ==
    /\ ExitBody(current_task_count_syscall_guards(guards, current))
    /\ Counted(SYSCALL_EXIT, {})

\* the flow runs on after the __switch in schedule: sys_yield returns 0,
\* sys_exit reaches its panic
SysReturn ==
    /\ InTask
    /\ ~guards.fault
    /\ task_cx[flow] # "user"
    /\ IF task_cx[flow] = "sys_yield"
       THEN /\ last' = [NoCall EXCEPT !.op = "sys_yield", !.task = flow,
                                      !.ret = 0, !.returned = TRUE]
            /\ UNCHANGED panicked
       ELSE /\ last' = [NoCall EXCEPT !.op = "sys_exit", !.task = flow]
            /\ panicked' = TRUE
    /\ task_cx' = [task_cx EXCEPT ![flow] = "user"]
    /\ UNCHANGED <<ready_queue, current, flow, task_status, task_stime, now,
                   memory_set, umem, pre_mmap, scen, evlog, guards>>
    /\ Uncounted

\* syscall(SYSCALL_TASK_INFO, ..): counted, then sys_task_info
SyscallTaskInfo(_ti) ==
    /\ InUser
    /\ IF current = NoTask
       THEN KernelPanic("task_info") /\ UNCHANGED <<task_cx, guards>> /\ Uncounted
       ELSE LET counted == current_task_count_syscall(task_syscall_times[current],
                                                      SYSCALL_TASK_INFO)
                cti == current_task_info(task_status[current], counted,
                                         task_stime[current], get_time_ms)
                res == sys_task_info(memory_set[current], umem[current], _ti,
                                     cti.syscall_times, task_stime[current], get_time_ms)
            IN  /\ umem' = [umem EXCEPT ![current] = res.um]
                /\ \E crash \in (IF res.overrun THEN BOOLEAN ELSE {FALSE}) :
                      /\ panicked' = crash
                      /\ last' = [op |-> "task_info", task |-> current, start |-> _ti,
                                  len |-> TaskInfoLen, port |-> 0, us |-> 0,
                                  ret |-> res.ret, returned |-> ~crash]
                /\ pre_mmap' = {}
                /\ scen' = NoScen
                /\ UNCHANGED <<ready_queue, current, flow, task_status, task_stime,
                               now, memory_set, evlog, task_cx>>
                /\ guards' = current_task_info_guards(
                                 current_task_guards(
                                     current_task_count_syscall_guards(guards, current)),
                                 current)
                /\ Counted(SYSCALL_TASK_INFO, {res.info})

\* the running task calls current_task_mmap
Mmap(start, len, port) ==
    /\ InUser
    /\ CurrentTaskMmap(start, len, port)
    /\ guards' = current_task_mmap_guards(guards, current, start, port)
    /\ UNCHANGED task_cx
    /\ Uncounted

\* the running task calls current_task_munmap
Munmap(start, len) ==
    /\ InUser
    /\ CurrentTaskMunmap(start, len)
    /\ guards' = current_task_munmap_guards(guards, current, start)
    /\ UNCHANGED task_cx
    /\ Uncounted

\* ---------------------------------------------------------- specifications
\* the kernel after the loader has queued the tasks
Init ==
    /\ ready_queue = InitialQueue
    /\ current = NoTask
    /\ flow = Idle
    /\ task_status = [t \in Tasks |-> "Ready"]
    /\ task_stime = [t \in Tasks |-> 0]
    /\ now = 0
    /\ memory_set = [t \in Tasks |-> EmptyMemorySet]
    /\ umem = [t \in Tasks |-> [a \in UAddrs |-> 0]]
    /\ panicked = FALSE
    /\ last = NoCall
    /\ pre_mmap = {}
    /\ scen = NoScen
    /\ evlog = <<>>
    /\ task_syscall_times = [t \in Tasks |-> [id \in SyscallIds |-> 0]]
    /\ task_cx = [t \in Tasks |-> "user"]
    /\ guards = NoGuards
    /\ last_sys = {}

\* the kernel after run_tasks has dispatched the first task
InitRunning ==
    /\ ready_queue = Tail(InitialQueue)
    /\ current = Head(InitialQueue)
    /\ flow = Head(InitialQueue)
    /\ task_status = [t \in Tasks |-> IF t = Head(InitialQueue) THEN "Running" ELSE "Ready"]
    /\ task_stime = [t \in Tasks |-> 0]
    /\ now = 0
    /\ memory_set = [t \in Tasks |-> EmptyMemorySet]
    /\ umem = [t \in Tasks |-> [a \in UAddrs |-> 0]]
    /\ panicked = FALSE
    /\ last = [NoCall EXCEPT !.op = "run_tasks", !.task = Head(InitialQueue)]
    /\ pre_mmap = {}
    /\ scen = NoScen
    /\ evlog = <<<<"run", Head(InitialQueue)>>>>
    /\ task_syscall_times = [t \in Tasks |-> [id \in SyscallIds |-> 0]]
    /\ task_cx = [t \in Tasks |-> "user"]
    /\ guards = NoGuards
    /\ last_sys = {}

\* dispatch, yield, exit and the timer
Next ==
    \/ Dispatch
    \/ Yield
    \/ Exit
    \/ SysReturn
    \/ Plain(Tick)

Spec ==
    Init /\ [][Next]_vars

\* the same kernel where the idle loop keeps turning, a flow that is switched
\* to runs on, and a task that executes eventually yields or exits
SpecLive ==
    /\ Init
    /\ [][Next]_vars
    /\ WF_vars(Dispatch)
    /\ WF_vars(SysReturn)
    /\ WF_vars(Yield \/ Exit)

\* the running task maps and unmaps with arguments that pass validation;
\* a read-only mapping is asked for one page at a time
NextMem ==
    \/ \E start \in AlignedStarts, len \in Lens, port \in ValidPorts :
          /\ start + len <= NumPages * PAGE_SIZE
          /\ (port = 3 \/ len = PAGE_SIZE)
          /\ Mmap(start, len, port)
    \/ \E start \in AlignedStarts, len \in Lens :
          start + len <= NumPages * PAGE_SIZE /\ Munmap(start, len)

SpecMem ==
    InitRunning /\ [][NextMem]_vars

\* the running task maps and unmaps through either entry, with valid and
\* invalid start addresses and ports
NextArgs ==
    \/ \E start \in Starts, len \in ArgLens, port \in Ports :
          start + len <= NumPages * PAGE_SIZE /\ Mmap(start, len, port)
    \/ \E start \in Starts, len \in ArgLens :
          start + len <= NumPages * PAGE_SIZE /\ Munmap(start, len)
    \/ \E start \in Starts, len \in ArgLens, port \in Ports :
          start + len <= NumPages * PAGE_SIZE /\ Plain(SysMmap(start, len, port))
    \/ \E start \in Starts, len \in ArgLens :
          start + len <= NumPages * PAGE_SIZE /\ Plain(SysMunmap(start, len))

SpecArgs ==
    InitRunning /\ [][NextArgs]_vars

\* the running task maps and unmaps whole pages and asks for the time
NextTime ==
    \/ \E vpn \in VPNs, n \in 1 .. NumPages :
          vpn + n <= NumPages /\ Mmap(vpn * PAGE_SIZE, n * PAGE_SIZE, 3)
    \/ \E vpn \in VPNs, n \in 1 .. NumPages :
          vpn + n <= NumPages /\ Munmap(vpn * PAGE_SIZE, n * PAGE_SIZE)
    \/ \E _ts \in TimePtrs : Plain(SysGetTime(_ts))
    \/ Plain(Tick)

SpecTime ==
    InitRunning /\ [][NextTime]_vars

\* every task traps into the syscall dispatcher to yield, exit and ask for its
\* TaskInfo (at an address it has not mapped), and maps and unmaps its first page
NextCount ==
    \/ Dispatch
    \/ SyscallYield
    \/ SyscallExit
    \/ SyscallTaskInfo(PAGE_SIZE)
    \/ SysReturn
    \/ \E start \in {0, 1} : Mmap(start, PAGE_SIZE, 3)
    \/ \E start \in {0, 1} : Munmap(start, PAGE_SIZE)

SpecCount ==
    Init /\ [][NextCount]_vars

\* the running task maps and unmaps whole pages and asks for its TaskInfo
NextInfo ==
    \/ \E vpn \in VPNs, n \in 1 .. NumPages :
          vpn + n <= NumPages /\ Mmap(vpn * PAGE_SIZE, n * PAGE_SIZE, 3)
    \/ \E vpn \in VPNs, n \in 1 .. NumPages :
          vpn + n <= NumPages /\ Munmap(vpn * PAGE_SIZE, n * PAGE_SIZE)
    \/ \E _ti \in InfoPtrs : SyscallTaskInfo(_ti)
    \/ Plain(Tick)

SpecInfo ==
    InitRunning /\ [][NextInfo]_vars

\* -------------------------------------------------------------- properties
\* the pages [floor(start), ceil(start + len)) a call asks for
ReqPages(start, len) ==
    VPNRange(floor(start), ceil(start + len))

\* port uses only bits 0-2 and sets at least one of them
PortOk(port) ==
    port \div 8 = 0 /\ port % 8 # 0

\* C1: a munmap with an aligned start over one or more pages that are all
\* mapped returns 0 if a MapArea of the current task begins at floor(start),
\* and returns -1 and leaves the address space unchanged if none begins there.
C1_MunmapNeedsAreaAtStart ==
    [][(/\ last'.op = "munmap"
        /\ last'.returned
        /\ page_offset(last'.start) = 0
        /\ ReqPages(last'.start, last'.len) # {}
        /\ ReqPages(last'.start, last'.len) \subseteq MappedPages(memory_set[current]))
       => IF \E i \in 1 .. Len(memory_set[current].areas) :
                 memory_set[current].areas[i].l = floor(last'.start)
          THEN last'.ret = 0
          ELSE last'.ret = -1 /\ memory_set' = memory_set]_vars

\* C2: an mmap with valid arguments over a range that holds a mapped page
\* returns -1 and leaves the mapped pages and the list of MapAreas as they were.
C2_MmapOverlapRejected ==
    [][(/\ last'.op = "mmap"
        /\ last'.returned
        /\ page_offset(last'.start) = 0
        /\ PortOk(last'.port)
        /\ ReqPages(last'.start, last'.len) \cap MappedPages(memory_set[current]) # {})
       => (last'.ret = -1 /\ memory_set' = memory_set)]_vars

\* an mmap with valid arguments has been refused over a range of which one
\* page is mapped and another is not
C2_Witness ==
    /\ last.op = "mmap"
    /\ last.ret = -1
    /\ page_offset(last.start) = 0
    /\ PortOk(last.port)
    /\ ReqPages(last.start, last.len) \cap MappedPages(memory_set[last.task]) # {}
    /\ ReqPages(last.start, last.len) \ MappedPages(memory_set[last.task]) # {}

\* C3: a munmap over a range that holds an unmapped page returns -1 and leaves
\* the address space of the current task unchanged.
C3_MunmapUnmappedRejected ==
    [][(/\ last'.op = "munmap"
        /\ last'.returned
        /\ ReqPages(last'.start, last'.len) \ MappedPages(memory_set[current]) # {})
       => (last'.ret = -1 /\ memory_set' = memory_set)]_vars

\* a munmap with an aligned start has been refused over a range that begins
\* with a mapped page, where an area begins, and goes on over an unmapped page
C3_Witness ==
    /\ last.op = "munmap"
    /\ last.ret = -1
    /\ page_offset(last.start) = 0
    /\ floor(last.start) \in MappedPages(memory_set[last.task])
    /\ \E i \in 1 .. Len(memory_set[last.task].areas) :
           memory_set[last.task].areas[i].l = floor(last.start)
    /\ ReqPages(last.start, last.len) \ MappedPages(memory_set[last.task]) # {}

\* C4: when mmap(start, len, port) with len > 0 has returned 0 and the next
\* call is munmap(start, len), the munmap returns 0 and the address space is
\* again what it was before the mmap.
C4_MmapMunmapRoundTrip ==
    [][\A snap \in pre_mmap :
          (/\ snap.len > 0
           /\ last'.op = "munmap"
           /\ last'.returned
           /\ last'.start = snap.start
           /\ last'.len = snap.len)
          => (last'.ret = 0 /\ memory_set'[current] = snap.ms)]_vars

\* C5: an mmap whose port has none of bits 0-2 set, or a bit above bit 2 set,
\* returns -1 and leaves the address space unchanged.
C5_MmapBadPortRejected ==
    [][(/\ last'.op = "mmap"
        /\ last'.returned
        /\ ~PortOk(last'.port))
       => (last'.ret = -1 /\ memory_set' = memory_set)]_vars

\* an mmap that was in order but for a bit above bit 2 in its port has been
\* refused: aligned start, a permission bit set, no page of the range mapped
C5_Witness ==
    /\ last.op = "mmap"
    /\ last.ret = -1
    /\ last.port \div 8 # 0
    /\ last.port % 8 # 0
    /\ page_offset(last.start) = 0
    /\ last.len > 0
    /\ ReqPages(last.start, last.len) \cap MappedPages(memory_set[last.task]) = {}

\* C6: an mmap whose start is not page-aligned returns -1 and leaves the
\* address space unchanged.
C6_MmapUnalignedRejected ==
    [][(/\ last'.op = "mmap"
        /\ last'.returned
        /\ page_offset(last'.start) # 0)
       => (last'.ret = -1 /\ memory_set' = memory_set)]_vars

\* an mmap that was in order but for its unaligned start has been refused:
\* a valid port, no page of the range mapped
C6_Witness ==
    /\ last.op = "mmap"
    /\ last.ret = -1
    /\ page_offset(last.start) # 0
    /\ PortOk(last.port)
    /\ last.len > 0
    /\ ReqPages(last.start, last.len) \cap MappedPages(memory_set[last.task]) = {}

\* C7: begun with the pages at s and s + 1 page unmapped, the calls
\* mmap(s, 2 pages, R+W), mmap(s, 1 page, R), munmap(s, 2 pages),
\* munmap(s, 2 pages) return 0, -1, 0, -1.
C7_ScenarioReturns ==
    scen.step = 4 => scen.rets = <<0, -1, 0, -1>>

\* the tasks the idle loop must dispatch, in order, for the events of log,
\* begun with the tasks of queue waiting: a dispatch takes the task that has
\* waited longest, a yield puts the task behind those waiting, an exit none
RECURSIVE FifoOrder(_, _)
FifoOrder(log, queue) ==
    IF log = <<>>
    THEN TRUE
    ELSE LET e == Head(log)
         IN  IF e[1] = "run"
             THEN queue # <<>> /\ e[2] = Head(queue) /\ FifoOrder(Tail(log), Tail(queue))
             ELSE IF e[1] = "yield"
                  THEN FifoOrder(Tail(log), Append(queue, e[2]))
                  ELSE FifoOrder(Tail(log), queue)

\* C8: every dispatch takes the task that has waited longest, a task that
\* yields waits behind every task already waiting, and a task that has exited
\* is not dispatched again.
C8_FifoDispatch ==
    /\ FifoOrder(evlog, InitialQueue)
    /\ \A i \in 1 .. Len(evlog) : \A j \in (i + 1) .. Len(evlog) :
           evlog[i][1] = "exit" => evlog[j] # <<"run", evlog[i][2]>>
    /\ \A i \in 1 .. Len(ready_queue) : task_status[ready_queue[i]] # "Exited"

\* A, B, C were queued in this order; A has yielded, B has exited, and the
\* next two dispatches took C and then A
C8_Witness ==
    /\ Len(evlog) >= 7
    /\ SubSeq(evlog, 1, 5) = <<<<"run", "A">>, <<"yield", "A">>, <<"run", "B">>,
                               <<"exit", "B">>, <<"run", "C">>>>
    /\ evlog[7] = <<"run", "A">>

\* every word of the TimeVal at ptr lies in a page with a valid user entry
Translatable(ms, ptr) ==
    \A a \in ptr .. (ptr + TimeValLen - 1) :
        \E pte \in translate(ms, floor(a)) : is_valid(pte) /\ "U" \in pte.perm

\* the words at ptr hold the seconds and the microseconds of the reading us
TimeValAt(um, ptr, us) ==
    /\ ptr + 1 \in UAddrs
    /\ um[ptr] = us \div MICRO_PER_SEC
    /\ um[ptr + 1] = us % MICRO_PER_SEC

\* C9: get_time writes the seconds and the microseconds of the clock reading
\* at user_ptr, also when the destination lies across a page boundary.
C9_GetTimeWrites ==
    (last.op = "get_time" /\ Translatable(memory_set[last.task], last.start))
    => TimeValAt(umem[last.task], last.start, last.us)

\* C10: get_time returns 0 exactly when the TimeVal has been written, and -1
\* when the destination cannot be translated in full.
C10_GetTimeResult ==
    last.op = "get_time"
    => /\ (last.returned /\ last.ret = 0)
          <=> TimeValAt(umem[last.task], last.start, last.us)
       /\ ~Translatable(memory_set[last.task], last.start)
          => (last.returned /\ last.ret = -1)

\* C11: a task's counter of a syscall id goes up by exactly one in a step in
\* which that task invokes that syscall and is left alone by every other step
\* (other tasks' syscalls, other ids, dispatches, returns, mmap and munmap);
\* the snapshot task_info produces holds the counters with that call counted
C11_SyscallCounts ==
    [][ /\ \A t \in Tasks, id \in SyscallIds :
              task_syscall_times'[t][id] =
                  task_syscall_times[t][id]
                  + (IF \E c \in last_sys' : c.task = t /\ c.id = id THEN 1 ELSE 0)
        /\ \A c \in last_sys' : \A i \in c.info :
              /\ c.id = SYSCALL_TASK_INFO
              /\ i.syscall_times = task_syscall_times'[c.task]
              /\ i.syscall_times[SYSCALL_TASK_INFO] =
                     task_syscall_times[c.task][SYSCALL_TASK_INFO] + 1
      ]_vars

\* a task's second task_info, after a yield of its own and one of another task
C11_Witness ==
    \E c \in last_sys : \E i \in c.info :
        /\ i.syscall_times[SYSCALL_TASK_INFO] = 2
        /\ i.syscall_times[SYSCALL_YIELD] = 1
        /\ \E u \in Tasks \ {c.task} :
              /\ task_syscall_times[u][SYSCALL_YIELD] = 1
              /\ task_syscall_times[u][SYSCALL_TASK_INFO] = 0

\* every word of the TaskInfo at ptr lies in a page with a valid user entry
InfoTranslatable(ms, ptr) ==
    \A a \in ptr .. (ptr + TaskInfoLen - 1) :
        \E pte \in translate(ms, floor(a)) : is_valid(pte) /\ "U" \in pte.perm

\* the words at ptr hold the TaskInfo info
TaskInfoAt(um, ptr, info) ==
    \A k \in 1 .. TaskInfoLen :
        /\ ptr + k - 1 \in UAddrs
        /\ um[ptr + k - 1] = TaskInfoWords(info)[k]

\* C12: when task_info returns 0 the status, the counters and the time since
\* the dispatch start of the calling task stand in user memory at user_ptr,
\* also across a page boundary; it returns -1 when the destination cannot be
\* translated.
C12_TaskInfoResult ==
    (last.op = "task_info" /\ last.returned)
    => /\ last.ret = 0
          => TaskInfoAt(umem[last.task], last.start,
                        [status |-> task_status[last.task],
                         syscall_times |-> task_syscall_times[last.task],
                         time |-> get_time_ms - task_stime[last.task]])
       /\ ~InfoTranslatable(memory_set[last.task], last.start)
          => last.ret = -1

\* C13: exit does not return: the step of exit_current_and_run_next leaves the
\* task Exited, an Exited task stays Exited and is never made current or run
\* again, it is not in the ready queue, and the panic after the call in
\* sys_exit is never reached
C13_ExitNeverReturns ==
    /\ [][ /\ (last'.op = "sys_exit" /\ last'.task \in Tasks)
              => task_status'[last'.task] = "Exited"
           /\ \A t \in Tasks :
                 task_status[t] = "Exited"
                 => /\ task_status'[t] = "Exited"
                    /\ flow' # t
                    /\ current' # t
         ]_vars
    /\ [](\A t \in Tasks :
             task_status[t] = "Exited"
             => /\ flow # t
                /\ \A i \in 1 .. Len(ready_queue) : ready_queue[i] # t)
    /\ [](~(panicked /\ last.op = "sys_exit"))

\* a task has exited, and afterwards another task was dispatched again and
\* came back from its yield
C13_Witness ==
    /\ \E t \in Tasks : task_status[t] = "Exited" /\ task_cx[t] = "sys_exit"
    /\ last.op = "sys_yield" /\ last.returned
    /\ \E i \in 1 .. Len(evlog) : \E j \in (i + 1) .. Len(evlog) :
          evlog[i][1] = "exit" /\ evlog[j] = <<"run", last.task>>

\* C14: a task switched out inside yield is eventually dispatched again and
\* its yield then returns 0, when every task that runs eventually yields or exits
C14_YieldReturns ==
    \A t \in Tasks :
        (task_cx[t] = "sys_yield" /\ flow # t)
        ~> (/\ flow = t
            /\ last.op = "sys_yield" /\ last.task = t
            /\ last.returned /\ last.ret = 0)

\* the yield of a task has returned 0 after the two other tasks, dispatched
\* ahead of it, yielded in their turn
C14_Witness ==
    /\ last.op = "sys_yield" /\ last.returned /\ last.ret = 0
    /\ flow = last.task
    /\ \E i \in 1 .. Len(evlog) :
          /\ evlog[i] = <<"yield", last.task>>
          /\ i + 5 <= Len(evlog)
          /\ evlog[i + 2][1] = "yield"
          /\ evlog[i + 4][1] = "yield"
          /\ evlog[i + 5] = <<"run", last.task>>

\* C15: at every __switch, in run_tasks and in schedule, the flow that
\* switches away holds no guard, neither the Processor's nor a task's
C15_NoGuardAcrossSwitch ==
    guards.at_switch = {} /\ (flow = Idle => guards.held = {})

\* the idle flow has switched to a task, the task back to idle through
\* schedule, and idle to the next task
C15_Witness ==
    /\ Len(evlog) >= 3
    /\ evlog[1] = <<"run", "A">>
    /\ evlog[2] = <<"yield", "A">>
    /\ evlog[3] = <<"run", "B">>
    /\ flow = "B"
    /\ guards = NoGuards

\* C16: no operation asks for a guard that is held, and when an operation is
\* over, on every exit path, the guards it took are released
C16_GuardsExclusive ==
    ~guards.fault /\ guards.held = {}

\* after a yield, a task_info and a mapping by other tasks, current_task_mmap
\* has returned -1 from its overlap check with both guards taken
C16_Witness ==
    /\ guards = NoGuards
    /\ last.op = "mmap" /\ last.ret = -1 /\ last.start = 0
    /\ \E t \in Tasks : task_syscall_times[t][SYSCALL_TASK_INFO] >= 1
    /\ \E i \in 1 .. Len(evlog) : evlog[i][1] = "yield"
    /\ \E t \in Tasks : MappedPages(memory_set[t]) # {} /\ t # last.task

\* a dispatch of task t is on record
Dispatched(t) ==
    \E i \in 1 .. Len(evlog) : evlog[i] = <<"run", t>>

\* C17: the first dispatch of a task stamps its start time with the clock,
\* and no step after it changes that start time, whatever the clock read at
\* the first dispatch
C17_StartTimeStampedOnce ==
    [][\A t \in Tasks :
          /\ (~Dispatched(t) /\ last'.op = "run_tasks" /\ last'.task = t)
             => task_stime'[t] = get_time_ms
          /\ Dispatched(t) => task_stime'[t] = task_stime[t]
      ]_vars

\* the pages of the MapAreas the address space holds
AreaPages(ms) ==
    UNION {VPNRange(ms.areas[i].l, ms.areas[i].r) : i \in 1 .. Len(ms.areas)}

\* C18: in every task's address space the pages with an entry in the
\* translator, and the pages with a valid one, are exactly the pages of the
\* MapAreas held, after any mmap and munmap calls
C18_TableMatchesAreas ==
    \A t \in Tasks :
        /\ MappedPages(memory_set[t]) = AreaPages(memory_set[t])
        /\ DOMAIN memory_set[t].page_table = AreaPages(memory_set[t])

\* a munmap of the second page of a two-page area has returned 0 while the
\* address space also holds the empty area of a zero-length mmap
C18_Witness ==
    /\ last.op = "munmap" /\ last.ret = 0
    /\ last.start = PAGE_SIZE /\ last.len = PAGE_SIZE
    /\ \E i, j \in 1 .. Len(memory_set[last.task].areas) :
          LET areas == memory_set[last.task].areas
          IN  /\ areas[i].l = 0 /\ areas[i].r = 2
              /\ areas[j].l = areas[j].r
    /\ MappedPages(memory_set[last.task]) = {0, 1}

\* C19: when munmap returns 0, no page of the requested range is mapped any
\* more, also when the range takes in several MapAreas or a part of one
C19_MunmapUnmapsRange ==
    (last.op = "munmap" /\ last.returned /\ last.ret = 0)
    => ReqPages(last.start, last.len) \cap MappedPages(memory_set[last.task]) = {}

=============================================================================
